---------------------------- MODULE Spec2Model ----------------------------
(***************************************************************************)
(* Model of async-raw (src/lib.rs): RawSock::new, the teardown of a        *)
(* RawSock, and the readiness loops RawSock::read and RawSock::write.      *)
(*                                                                         *)
(* The operating system and the reactor are the environment: every OS     *)
(* call takes its outcome from a set of outcomes the call can produce.     *)
(***************************************************************************)
EXTENDS Integers, Sequences, FiniteSets, TLC

(***************************************************************************)
(* Bounds of the model.                                                    *)
(***************************************************************************)
MaxFd == 2
MaxNameLen == 17
MaxIfIndex == 2
MaxLen == 2
MaxByte == 1
MaxWB == 2
MaxQueue == 1

(***************************************************************************)
(* Program constants (libc).                                               *)
(***************************************************************************)
IFNAMSIZ == 16
AF_PACKET == 17
ETH_P_ALL == 3

FDs == 1..MaxFd
Bytes == 0..MaxByte
\* The protocol selectors tried: ETH_P_ALL and ETH_P_IP (0x0800).
Protocols == {ETH_P_ALL, 2048}

Min(a, b) == IF a < b THEN a ELSE b

Zeros(n) == [i \in 1..n |-> 0]

Prefix(s, n) == [i \in 1..n |-> s[i]]

\* The interface names tried: short ones and one of every length from
\* IFNAMSIZ - 1 to MaxNameLen, made of non-zero bytes, some above 127.
NameOf(n) == [i \in 1..n |-> IF i % 2 = 0 THEN 200 ELSE 108]

(***************************************************************************)
(* RawSock::new                                                            *)
(***************************************************************************)

\* opts.intf.as_bytes() reinterpreted as [i8] (line 38).
ToI8(b) == IF b >= 128 THEN b - 256 ELSE b

\* The type argument of libc::socket (line 25).  SockTypeBlocking is the
\* variant without SOCK_NONBLOCK.
SockTypeBlocking == {"SOCK_RAW"}

SockType == {"SOCK_RAW", "SOCK_NONBLOCK"}

Names == {NameOf(n) : n \in {0, 2} \cup ((IFNAMSIZ - 1)..MaxNameLen)}

\* The length check of line 19.  NameTooLongStrict is the variant that
\* lets a name of exactly IFNAMSIZ bytes through.
NameTooLongStrict(intf) == Len(intf) > IFNAMSIZ

NameTooLong(intf) == Len(intf) >= IFNAMSIZ

\* ifr_name: zero-filled, then the name copied to its front (lines 33-39).
\* IfrNameTruncating is the variant that copies one byte less.
IfrNameTruncating(intf) ==
    [i \in 1..IFNAMSIZ |-> IF i < Len(intf) THEN ToI8(intf[i]) ELSE 0]

IfrName(intf) ==
    [i \in 1..IFNAMSIZ |-> IF i <= Len(intf) THEN ToI8(intf[i]) ELSE 0]

\* The 16-bit value with its two bytes swapped.
Swap16(v) == (v % 256) * 256 + (v \div 256)

\* opts.protocol as u16 (line 51).
AsU16(protocol) == protocol % 65536

\* u16::to_be on a target that is little-endian (le) or big-endian.
ToBe(v, le) == IF le THEN Swap16(v) ELSE v

\* The two bytes of a u16 field in memory order on the target.
MemBytes(v, le) ==
    IF le THEN <<v % 256, v \div 256>> ELSE <<v \div 256, v % 256>>

\* sll_protocol: u16::to_be(opts.protocol as u16), as the two bytes the
\* kernel reads from the field in memory order (line 51).
\* SllProtocolNative is the variant that stores the selector unconverted.
SllProtocolNative(protocol, le) == MemBytes(AsU16(protocol), le)

SllProtocol(protocol, le) == MemBytes(ToBe(AsU16(protocol), le), le)

\* The sockaddr_ll of lines 49-57.
SockAddr(protocol, ifindex, le) ==
    [sll_family |-> AF_PACKET, sll_protocol |-> SllProtocol(protocol, le),
     sll_ifindex |-> ifindex]

NoAddr == [sll_family |-> 0, sll_protocol |-> <<0, 0>>, sll_ifindex |-> 0]
NoSockArgs == [domain |-> 0, type |-> {}, protocol |-> 0]

\* The record of one call of RawSock::new: its options, the byte order of
\* the target, the OS calls it issued in order with their arguments, the
\* OS's answer to each call, the interface index the kernel wrote into the
\* ifreq, and how the call ended.
NoNew ==
    [intf |-> <<>>, protocol |-> 0, le |-> TRUE, calls |-> <<>>,
     answers |-> <<>>, sockArgs |-> NoSockArgs, ifr_name |-> <<>>,
     ifindex |-> 0, addr |-> NoAddr, fd |-> 0, result |-> "none",
     err |-> "none"]

\* What the OS may answer to the calls of one construction.  ioctl is the
\* interface index the query resolves the name to, 0 when it resolves to
\* none and the call fails with ENODEV.  le is the byte order of the
\* target the crate is built for.
OsNew ==
    {os \in [socket : {"ok", "EPERM"}, ioctl : 0..MaxIfIndex,
             bind : {"ok", "ENETDOWN"}, wrap : {"ok", "ENOMEM"},
             le : BOOLEAN] :
        /\ os.socket # "ok" => os.ioctl = 0
        /\ os.ioctl = 0 => os.bind = "ENETDOWN"
        /\ os.bind # "ok" => os.wrap = "ENOMEM"}

\* The descriptor libc::socket returns: the lowest free one, none (0) when
\* the OS refuses or the descriptor table is full.
SocketFd(openFds, answer) ==
    IF answer = "ok" /\ (FDs \ openFds) # {}
    THEN CHOOSE f \in FDs \ openFds : \A g \in FDs \ openFds : f <= g
    ELSE 0

SocketErrno(answer) == IF answer = "ok" THEN "EMFILE" ELSE answer

IoctlAnswer(index) == IF index = 0 THEN "ENODEV" ELSE "ok"

\* The tests `< 0` on the results of ioctl and bind (lines 45, 59).
\* FailedIgnored is the variant that does not look at the result.
FailedIgnored(answer) == FALSE

Failed(answer) == answer # "ok"

\* RawSock::new (lines 17-67) on the OS state s = [open, nonblock,
\* registered, chan], with options opts and OS answers os.  The value is
\* the OS state after the call together with the record of the call.  The
\* returns of lines 46 and 60 and the panic of line 64 leave the created
\* descriptor as it is: no path of the function closes it.
RawSock_new(s, opts, os) ==
    LET base == [NoNew EXCEPT !.intf = opts.intf, !.protocol = opts.protocol,
                              !.le = os.le]
    IN
    IF NameTooLong(opts.intf)
    THEN [s |-> s,
          new |-> [base EXCEPT !.result = "err", !.err = "other"]]
    ELSE
    LET fd == SocketFd(s.open, os.socket)
        args == [domain |-> AF_PACKET, type |-> SockType,
                 protocol |-> opts.protocol]
        r1 == [base EXCEPT !.calls = <<"socket">>, !.sockArgs = args,
                           !.answers = <<IF fd = 0
                                         THEN SocketErrno(os.socket)
                                         ELSE "ok">>]
    IN
    IF fd = 0
    THEN [s |-> s,
          new |-> [r1 EXCEPT !.result = "err",
                             !.err = SocketErrno(os.socket)]]
    ELSE
    LET s1 == [s EXCEPT !.open = @ \cup {fd},
                        !.nonblock = IF "SOCK_NONBLOCK" \in args.type
                                     THEN @ \cup {fd} ELSE @ \ {fd}]
        r2 == [r1 EXCEPT !.calls = Append(@, "ioctl"), !.fd = fd,
                         !.answers = Append(@, IoctlAnswer(os.ioctl)),
                         !.ifr_name = IfrName(opts.intf),
                         !.ifindex = os.ioctl]
    IN
    IF Failed(IoctlAnswer(os.ioctl))
    THEN [s |-> s1,
          new |-> [r2 EXCEPT !.result = "err", !.err = "ENODEV"]]
    ELSE
    LET r3 == [r2 EXCEPT !.calls = Append(@, "bind"),
                         !.answers = Append(@, os.bind),
                         !.addr = SockAddr(opts.protocol, r2.ifindex, os.le)]
    IN
    IF Failed(os.bind)
    THEN [s |-> s1,
          new |-> [r3 EXCEPT !.result = "err", !.err = os.bind]]
    ELSE
    LET r4 == [r3 EXCEPT !.calls = Append(@, "AsyncFd::new"),
                         !.answers = Append(@, os.wrap)]
    IN
    IF os.wrap # "ok"
    THEN [s |-> s1, new |-> [r4 EXCEPT !.result = "panic", !.err = os.wrap]]
    ELSE [s |-> [s1 EXCEPT !.registered = @ \cup {fd}, !.chan = @ \cup {fd}],
          new |-> [r4 EXCEPT !.result = "ok"]]

(***************************************************************************)
(* RawSock::read and RawSock::write                                        *)
(***************************************************************************)

\* io::Error::last_os_error().kind() (lines 82-84, 108-110).
ErrorKind(errno) == IF errno = "EAGAIN" THEN "WouldBlock" ELSE "Other"

\* The match on the result of recv/send (lines 81-90, 107-116): the loop
\* continues, or the function returns an error or a count.  The variants:
\* ClassifyNoAbsorb returns the would-block error, ClassifyRetryAll retries
\* after every error.
ClassifyNoAbsorb(ret, errno) == IF ret < 0 THEN "err" ELSE "ok"

ClassifyRetryAll(ret, errno) == IF ret < 0 THEN "continue" ELSE "ok"

Classify(ret, errno) ==
    IF ret < 0
    THEN IF ErrorKind(errno) = "WouldBlock" THEN "continue" ELSE "err"
    ELSE "ok"

\* Ok(res as usize) (lines 89, 115).
ReturnValue(ret) == ret

\* The readiness each operation awaits (lines 71, 97) and the call it
\* issues (lines 74, 100).  WriteInterestReadable is the variant in which
\* write awaits readable().
ReadInterest == "readable"
WriteInterestReadable == "readable"
WriteInterest == "writable"
ReadCall == "recv"
WriteCall == "send"

\* buf.len(), the length handed to recv/send (lines 77, 103).  IoLenShort
\* is the variant that hands over one byte less.
IoLenShort(buf) == IF Len(buf) > 0 THEN Len(buf) - 1 ELSE 0

IoLen(buf) == Len(buf)

IoErrnos == {"ENETDOWN", "EINTR"}

Frames == UNION {[1..n -> Bytes] : n \in 0..MaxLen}

\* An operation: its position in the loop, the descriptor of its channel,
\* the caller's buffer, what it returned, and how the operation before it
\* on the channel ended.
IdleOp ==
    [pc |-> "idle", fd |-> 0, buf |-> <<>>, ret |-> 0, err |-> "none",
     prev |-> "none"]

Returned == {"idle", "done", "failed", "cancelled"}

\* The recv/send calls of an operation: the function called, the readiness
\* it followed and the length given (of the last call), the would-block
\* answers so far, the first other answer with its count, and the calls
\* issued after that answer.
NoLog ==
    [fn |-> "none", on |-> "none", len |-> 0, wb |-> 0, final |-> "none",
     n |-> 0, after |-> 0]

VARIABLES
    open,        \* the descriptors open in the process
    nonblock,    \* the open descriptors in non-blocking mode
    registered,  \* the descriptors registered with the reactor
    chan,        \* the descriptors owned by a live RawSock
    dropped,     \* the descriptors whose RawSock was destroyed
    newRes,      \* the record of the last call of RawSock::new
    readReady,   \* the registrations whose read readiness is set
    writeReady,  \* the registrations whose write readiness is set
    shutdown,    \* the reactor has shut down
    rd,          \* the read operation: position, buffer, result
    wr,          \* the write operation: position, buffer, result
    recvLog,     \* the OS calls of rd and the answers to them
    sendLog,     \* the OS calls of wr and the answers to them
    net,         \* "mock": the OS answers freely; "lo": a loopback interface
    wire,        \* lo: frames sent and not yet delivered
    rq,          \* lo: frames delivered to the socket's receive queue
    test         \* position of tests::test_creation, "off" outside it

osVars == <<open, nonblock, registered, chan, dropped, newRes>>
reactorVars == <<readReady, writeReady, shutdown>>
readVars == <<rd, recvLog>>
writeVars == <<wr, sendLog>>
netVars == <<net, wire, rq>>
vars == <<open, nonblock, registered, chan, dropped, newRes, readReady,
          writeReady, shutdown, rd, wr, recvLog, sendLog, net,
          wire, rq, test>>

OsState ==
    [open |-> open, nonblock |-> nonblock, registered |-> registered,
     chan |-> chan]

NoOsState == [open |-> {}, nonblock |-> {}, registered |-> {}, chan |-> {}]

(***************************************************************************)
(* Construction and teardown                                               *)
(***************************************************************************)

\* A caller calls RawSock::new(opts); the OS answers os.
New(opts, os) ==
    LET t == RawSock_new(OsState, opts, os)
    IN /\ open' = t.s.open
       /\ nonblock' = t.s.nonblock
       /\ registered' = t.s.registered
       /\ chan' = t.s.chan
       /\ newRes' = t.new
       /\ UNCHANGED <<dropped, reactorVars, readVars, writeVars, netVars, test>>

\* What dropping the field fd: AsyncFd<RawFd> does to the open descriptors
\* (lines 12-14): AsyncFd removes the registration and drops the inner
\* RawFd, a plain integer whose drop does nothing.
OpenAfterDrop(openFds, f) == openFds

\* A RawSock is destroyed.  read and write borrow the RawSock, so none of
\* them is in progress on it.
Drop(f) ==
    /\ f \in chan
    /\ test \in {"off", "passed", "panic"}
    /\ rd.fd = f => rd.pc \in Returned
    /\ wr.fd = f => wr.pc \in Returned
    /\ chan' = chan \ {f}
    /\ registered' = registered \ {f}
    /\ readReady' = readReady \ {f}
    /\ writeReady' = writeReady \ {f}
    /\ open' = OpenAfterDrop(open, f)
    /\ dropped' = dropped \cup {f}
    /\ UNCHANGED <<nonblock, newRes, shutdown, readVars, writeVars, netVars, test>>

(***************************************************************************)
(* The reactor and the network                                             *)
(***************************************************************************)

Ready(interest) == IF interest = "readable" THEN readReady ELSE writeReady

\* The reactor sets the read readiness of a registration.  Nothing in
\* read or write clears it again (no clear_ready on the guard).
ReactorReadable(f) ==
    /\ f \in registered \ readReady
    /\ ~shutdown
    /\ readReady' = readReady \cup {f}
    /\ UNCHANGED <<osVars, writeReady, shutdown, readVars, writeVars,
                   netVars, test>>

ReactorWritable(f) ==
    /\ f \in registered \ writeReady
    /\ ~shutdown
    /\ writeReady' = writeReady \cup {f}
    /\ UNCHANGED <<osVars, readReady, shutdown, readVars, writeVars,
                   netVars, test>>

\* The runtime shuts its I/O driver down: every readiness wait ends with
\* an error from then on.
ReactorShutdown ==
    /\ ~shutdown
    /\ test = "off"
    /\ shutdown' = TRUE
    /\ UNCHANGED <<osVars, readReady, writeReady, readVars, writeVars,
                   netVars, test>>

\* The loopback interface hands a sent frame to the receive queue.
Deliver ==
    /\ net = "lo"
    /\ wire # <<>>
    /\ rq' = Append(rq, Head(wire))
    /\ wire' = Tail(wire)
    /\ UNCHANGED <<osVars, reactorVars, readVars, writeVars, net,
                   test>>

(***************************************************************************)
(* The loop of read and write (lines 69-93, 95-119)                        *)
(***************************************************************************)

\* The operation after recv/send answered (ret, errno) and left buf in the
\* caller's buffer.  AfterCallRetryShort is the variant that loops again
\* after a transfer shorter than the buffer.
AfterCallRetryShort(op, ret, errno, buf) ==
    LET c == Classify(ret, errno)
    IN IF c = "continue" \/ (c = "ok" /\ ret < Len(op.buf))
       THEN [op EXCEPT !.pc = "awaiting", !.buf = buf]
       ELSE IF c = "err" THEN [op EXCEPT !.pc = "failed", !.err = errno]
       ELSE [op EXCEPT !.pc = "done", !.ret = ReturnValue(ret), !.buf = buf]

AfterCall(op, ret, errno, buf) ==
    LET c == Classify(ret, errno)
    IN IF c = "continue" THEN [op EXCEPT !.pc = "awaiting"]
       ELSE IF c = "err" THEN [op EXCEPT !.pc = "failed", !.err = errno]
       ELSE [op EXCEPT !.pc = "done", !.ret = ReturnValue(ret), !.buf = buf]

\* The record of a call and of the OS's answer to it: a would-block is
\* counted, the first other answer is kept.
Called(log, fn, on, len) ==
    [log EXCEPT !.fn = fn, !.on = on, !.len = len,
                !.after = IF log.final # "none" THEN @ + 1 ELSE @]

Noted(log, ret, errno) ==
    IF ret < 0 /\ errno = "EAGAIN" THEN [log EXCEPT !.wb = @ + 1]
    ELSE [log EXCEPT !.final = IF ret < 0 THEN errno ELSE "ok",
                     !.n = IF ret < 0 THEN 0 ELSE ret]

\* The caller's buffer after the OS copied data to its front.
Filled(buf, data) ==
    [i \in 1..Len(buf) |-> IF i <= Len(data) THEN data[i] ELSE buf[i]]

\* Dropping a suspended readable()/writable() future leaves the readiness
\* of the registration as it is (lines 71, 97).  ReadinessClearedOnCancel
\* is the variant in which the drop clears it.
ReadinessClearedOnCancel(ready, f) == ready \ {f}

ReadinessAfterCancel(ready, f) == ready

\* A call of read or write begins at the top of its loop with nothing kept
\* from the call before it (lines 69-71, 95-97).  StartOpSticky is the
\* variant in which a channel that failed once keeps failing.
StartOpSticky(op, f, buf) ==
    IF op.pc = "failed" THEN [op EXCEPT !.prev = "failed"]
    ELSE [pc |-> "awaiting", fd |-> f, buf |-> buf, ret |-> 0,
          err |-> "none", prev |-> op.pc]

StartOp(op, f, buf) ==
    [pc |-> "awaiting", fd |-> f, buf |-> buf, ret |-> 0, err |-> "none",
     prev |-> op.pc]

---------------------------------------------------------------------------
\* read

StartRead(f, cap) ==
    /\ test = "off"
    /\ f \in chan
    /\ rd.pc \in Returned
    /\ rd' = StartOp(rd, f, Zeros(cap))
    /\ recvLog' = NoLog
    /\ UNCHANGED <<osVars, reactorVars, writeVars, netVars, test>>

\* self.fd.readable().await finds no readiness: the task suspends.
ReadPending ==
    /\ rd.pc = "awaiting"
    /\ ~shutdown
    /\ rd.fd \notin Ready(ReadInterest)
    /\ rd' = [rd EXCEPT !.pc = "suspended"]
    /\ UNCHANGED <<osVars, reactorVars, recvLog, writeVars, netVars, test>>

\* The reactor wakes the suspended task, which polls readable() again.
\* ReadWakeLost is the variant in which a readiness notification wakes no
\* task.
ReadWakeLost ==
    /\ rd.pc = "suspended"
    /\ shutdown
    /\ rd' = [rd EXCEPT !.pc = "awaiting"]
    /\ UNCHANGED <<osVars, reactorVars, recvLog, writeVars, netVars, test>>

ReadWake ==
    /\ rd.pc = "suspended"
    /\ shutdown \/ rd.fd \in Ready(ReadInterest)
    /\ rd' = [rd EXCEPT !.pc = "awaiting"]
    /\ UNCHANGED <<osVars, reactorVars, recvLog, writeVars, netVars, test>>

\* readable().await? returns the error of a reactor that has shut down.
ReadGone ==
    /\ rd.pc = "awaiting"
    /\ shutdown
    /\ rd' = [rd EXCEPT !.pc = "failed", !.err = "gone"]
    /\ UNCHANGED <<osVars, reactorVars, recvLog, writeVars, netVars, test>>

\* The task is cancelled while read is suspended: the future is dropped.
CancelRead ==
    /\ test = "off"
    /\ rd.pc = "suspended"
    /\ rd' = [rd EXCEPT !.pc = "cancelled"]
    /\ readReady' = ReadinessAfterCancel(readReady, rd.fd)
    /\ UNCHANGED <<osVars, writeReady, shutdown, recvLog, writeVars,
                   netVars, test>>

\* recv is called when readable().await has completed with a guard (line
\* 71 before line 73).  ReadCanCallEager is the variant that calls recv
\* without a readiness signal.
ReadCanCallEager ==
    /\ rd.pc = "awaiting"
    /\ ~shutdown

ReadCanCall ==
    /\ rd.pc = "awaiting"
    /\ ~shutdown
    /\ rd.fd \in Ready(ReadInterest)

ReadCalled == Called(recvLog, ReadCall, ReadInterest, IoLen(rd.buf))

\* recv finds nothing to receive: EAGAIN on a non-blocking descriptor; on
\* a blocking one the call does not return.
ReadWouldBlock ==
    /\ ReadCanCall
    /\ recvLog.wb < MaxWB
    /\ net = "lo" => rq = <<>>
    /\ IF rd.fd \in nonblock
       THEN /\ rd' = AfterCall(rd, -1, "EAGAIN", rd.buf)
            /\ recvLog' = Noted(ReadCalled, -1, "EAGAIN")
       ELSE /\ rd' = [rd EXCEPT !.pc = "blocked"]
            /\ recvLog' = ReadCalled
    /\ UNCHANGED <<osVars, reactorVars, writeVars, netVars, test>>

\* recv fails with another error.
ReadError(e) ==
    /\ ReadCanCall
    /\ rd' = AfterCall(rd, -1, e, rd.buf)
    /\ recvLog' = Noted(ReadCalled, -1, e)
    /\ UNCHANGED <<osVars, reactorVars, writeVars, netVars, test>>

\* recv receives a frame: the mock OS one of any length that fits, the
\* loopback the head of the receive queue, cut to the length asked for.
ReadOk(frame) ==
    /\ ReadCanCall
    /\ IF net = "lo"
       THEN /\ rq # <<>>
            /\ frame = Head(rq)
            /\ rq' = Tail(rq)
       ELSE /\ frame = Zeros(Len(frame))
            /\ Len(frame) <= ReadCalled.len
            /\ UNCHANGED rq
    /\ LET n == Min(Len(frame), ReadCalled.len)
       IN /\ rd' = AfterCall(rd, n, "none", Filled(rd.buf, Prefix(frame, n)))
          /\ recvLog' = Noted(ReadCalled, n, "none")
    /\ UNCHANGED <<osVars, reactorVars, writeVars, net, wire, test>>

---------------------------------------------------------------------------
\* write

StartWrite(f, buf) ==
    /\ test = "off"
    /\ f \in chan
    /\ wr.pc \in Returned
    /\ wr' = StartOp(wr, f, buf)
    /\ sendLog' = NoLog
    /\ UNCHANGED <<osVars, reactorVars, readVars, netVars, test>>

WritePending ==
    /\ wr.pc = "awaiting"
    /\ ~shutdown
    /\ wr.fd \notin Ready(WriteInterest)
    /\ wr' = [wr EXCEPT !.pc = "suspended"]
    /\ UNCHANGED <<osVars, reactorVars, sendLog, readVars, netVars, test>>

WriteWake ==
    /\ wr.pc = "suspended"
    /\ shutdown \/ wr.fd \in Ready(WriteInterest)
    /\ wr' = [wr EXCEPT !.pc = "awaiting"]
    /\ UNCHANGED <<osVars, reactorVars, sendLog, readVars, netVars, test>>

WriteGone ==
    /\ wr.pc = "awaiting"
    /\ shutdown
    /\ wr' = [wr EXCEPT !.pc = "failed", !.err = "gone"]
    /\ UNCHANGED <<osVars, reactorVars, sendLog, readVars, netVars, test>>

CancelWrite ==
    /\ test = "off"
    /\ wr.pc = "suspended"
    /\ wr' = [wr EXCEPT !.pc = "cancelled"]
    /\ writeReady' = ReadinessAfterCancel(writeReady, wr.fd)
    /\ UNCHANGED <<osVars, readReady, shutdown, sendLog, readVars,
                   netVars, test>>

WriteCanCall ==
    /\ wr.pc = "awaiting"
    /\ ~shutdown
    /\ wr.fd \in Ready(WriteInterest)

WriteCalled == Called(sendLog, WriteCall, WriteInterest, IoLen(wr.buf))

\* send finds no room: EAGAIN on a non-blocking descriptor.
WriteWouldBlock ==
    /\ WriteCanCall
    /\ sendLog.wb < MaxWB
    /\ IF wr.fd \in nonblock
       THEN /\ wr' = AfterCall(wr, -1, "EAGAIN", wr.buf)
            /\ sendLog' = Noted(WriteCalled, -1, "EAGAIN")
       ELSE /\ wr' = [wr EXCEPT !.pc = "blocked"]
            /\ sendLog' = WriteCalled
    /\ UNCHANGED <<osVars, reactorVars, readVars, netVars, test>>

WriteError(e) ==
    /\ WriteCanCall
    /\ wr' = AfterCall(wr, -1, e, wr.buf)
    /\ sendLog' = Noted(WriteCalled, -1, e)
    /\ UNCHANGED <<osVars, reactorVars, readVars, netVars, test>>

\* send accepts n bytes: the mock OS any count up to the length given, the
\* loopback the whole frame, which it puts on the wire.
WriteOk(n) ==
    /\ WriteCanCall
    /\ n <= WriteCalled.len
    /\ IF net = "lo"
       THEN /\ n = WriteCalled.len
            /\ Len(wire) + Len(rq) < MaxQueue
            /\ wire' = Append(wire, Prefix(wr.buf, n))
       ELSE UNCHANGED wire
    /\ wr' = AfterCall(wr, n, "none", wr.buf)
    /\ sendLog' = Noted(WriteCalled, n, "none")
    /\ UNCHANGED <<osVars, reactorVars, readVars, net, rq, test>>

(***************************************************************************)
(* tests::test_creation (lines 126-142): on a channel bound to lo with     *)
(* ETH_P_ALL, write a packet, then read it back and compare.               *)
(***************************************************************************)

\* my_sock.write(&packet).await (line 137).
TestWrite(packet) ==
    /\ test = "write"
    /\ \E f \in chan : wr' = StartOp(wr, f, packet)
    /\ sendLog' = NoLog
    /\ test' = "writing"
    /\ UNCHANGED <<osVars, reactorVars, readVars, netVars>>

\* .unwrap() of the write, then my_sock.read(&mut my_buf).await (line 138).
TestRead(cap) ==
    /\ test = "writing"
    /\ wr.pc = "done"
    /\ \E f \in chan : rd' = StartOp(rd, f, Zeros(cap))
    /\ recvLog' = NoLog
    /\ test' = "reading"
    /\ UNCHANGED <<osVars, reactorVars, writeVars, netVars>>

\* .unwrap() of a failed write or read panics.
TestUnwrapErr ==
    /\ \/ test = "writing" /\ wr.pc = "failed"
       \/ test = "reading" /\ rd.pc = "failed"
    /\ test' = "panic"
    /\ UNCHANGED <<osVars, reactorVars, readVars, writeVars, netVars>>

\* The two assert_eq! of lines 140-141.
TestAssert ==
    /\ test = "reading"
    /\ rd.pc = "done"
    /\ test' = IF /\ rd.ret = Len(wr.buf)
                  /\ Prefix(rd.buf, rd.ret) = wr.buf
               THEN "passed" ELSE "panic"
    /\ UNCHANGED <<osVars, reactorVars, readVars, writeVars, netVars>>

(***************************************************************************)
(* Specifications                                                          *)
(***************************************************************************)

NoIo ==
    /\ readReady = {} /\ writeReady = {} /\ shutdown = FALSE
    /\ rd = IdleOp /\ wr = IdleOp
    /\ recvLog = NoLog /\ sendLog = NoLog
    /\ wire = <<>> /\ rq = <<>>

\* The options of tests::test_creation (line 128) and an OS that lets the
\* construction succeed.
TestOpts == [intf |-> <<108, 111>>, protocol |-> ETH_P_ALL]
OsOk ==
    [socket |-> "ok", ioctl |-> 1, bind |-> "ok", wrap |-> "ok", le |-> TRUE]

Constructed ==
    LET t == RawSock_new(NoOsState, TestOpts, OsOk)
    IN /\ open = t.s.open
       /\ nonblock = t.s.nonblock
       /\ registered = t.s.registered
       /\ chan = t.s.chan
       /\ newRes = t.new
       /\ dropped = {}

\* The channel after a successful construction, used by tasks that read,
\* write and cancel freely against an OS that answers freely.
Init == Constructed /\ NoIo /\ net = "mock" /\ test = "off"

ReadNext ==
    \/ \E f \in FDs, cap \in 0..MaxLen : StartRead(f, cap)
    \/ ReadPending
    \/ ReadWake
    \/ ReadGone
    \/ CancelRead
    \/ ReadWouldBlock
    \/ \E e \in IoErrnos : ReadError(e)
    \/ \E frame \in Frames : ReadOk(frame)

WriteNext ==
    \/ \E f \in FDs, n \in 0..MaxLen : StartWrite(f, Zeros(n))
    \/ WritePending
    \/ WriteWake
    \/ WriteGone
    \/ CancelWrite
    \/ WriteWouldBlock
    \/ \E e \in IoErrnos : WriteError(e)
    \/ \E n \in 0..MaxLen : WriteOk(n)

Next ==
    \/ ReadNext
    \/ WriteNext
    \/ \E f \in FDs : ReactorReadable(f)
    \/ \E f \in FDs : ReactorWritable(f)
    \/ ReactorShutdown
    \/ \E f \in FDs : Drop(f)

Spec == Init /\ [][Next]_vars

\* The same program under the scheduling the runtime and the OS provide:
\* the reactor delivers the readiness of a registration, the executor runs
\* a task that was woken or whose wait has completed, and the OS does not
\* answer would-block for ever (at most MaxWB times to one operation).
Fairness ==
    /\ \A f \in FDs : WF_vars(ReactorReadable(f))
    /\ \A f \in FDs : WF_vars(ReactorWritable(f))
    /\ WF_vars(ReadWake)
    /\ WF_vars(ReadGone)
    /\ WF_vars((\E e \in IoErrnos : ReadError(e))
                  \/ (\E frame \in Frames : ReadOk(frame)))
    /\ WF_vars(WriteWake)
    /\ WF_vars(WriteGone)
    /\ WF_vars((\E e \in IoErrnos : WriteError(e))
                  \/ (\E n \in 0..MaxLen : WriteOk(n)))

SpecLive == Init /\ [][Next]_vars /\ Fairness

\* Construction and teardown alone, from a process with no socket.
InitNew ==
    /\ open = {} /\ nonblock = {} /\ registered = {} /\ chan = {}
    /\ dropped = {} /\ newRes = NoNew
    /\ NoIo /\ net = "mock" /\ test = "off"

NextNew ==
    \/ \E intf \in Names, protocol \in Protocols, os \in OsNew :
          New([intf |-> intf, protocol |-> protocol], os)
    \/ \E f \in FDs : Drop(f)

SpecNew == InitNew /\ [][NextNew]_vars

\* tests::test_creation on a loopback interface.
InitLoop == Constructed /\ NoIo /\ net = "lo" /\ test = "write"

NextLoop ==
    \/ \E packet \in Frames : TestWrite(packet)
    \/ \E cap \in 0..MaxLen : TestRead(cap)
    \/ TestUnwrapErr
    \/ TestAssert
    \/ ReadPending
    \/ ReadWake
    \/ ReadWouldBlock
    \/ \E e \in IoErrnos : ReadError(e)
    \/ \E frame \in Frames : ReadOk(frame)
    \/ WritePending
    \/ WriteWake
    \/ WriteWouldBlock
    \/ \E e \in IoErrnos : WriteError(e)
    \/ \E n \in 0..MaxLen : WriteOk(n)
    \/ \E f \in FDs : ReactorReadable(f)
    \/ \E f \in FDs : ReactorWritable(f)
    \/ Deliver
    \/ \E f \in FDs : Drop(f)

SpecLoop == InitLoop /\ [][NextLoop]_vars

(***************************************************************************)
(* Properties                                                              *)
(***************************************************************************)

Finished(op) == op.pc \in {"done", "failed"} /\ op.err # "gone"

Absorbed(op, log) ==
    /\ Finished(op) => log.final # "none"
    /\ log.final # "none" => Finished(op)
    /\ op.err # "EAGAIN"
    /\ op.pc = "done" => log.final = "ok" /\ op.ret = log.n
    /\ op.pc = "failed" /\ op.err # "gone" => log.final = op.err

\* C1: whatever the number of would-block answers, an operation returns
\* only with the first other answer of recv/send: it has not returned
\* while there is none, it has returned once there is one, never with the
\* would-block error, and a success carries that answer's count.
C1_WouldBlockAbsorbed == Absorbed(rd, recvLog) /\ Absorbed(wr, sendLog)

C1_Witness ==
    /\ rd.pc = "done" /\ recvLog.wb >= 2
    /\ wr.pc = "done" /\ sendLog.wb >= 2

Propagated(op, log) ==
    log.final \in IoErrnos =>
        /\ op.pc = "failed"
        /\ op.err = log.final
        /\ log.after = 0

\* C2: when recv/send answers an error other than would-block, the
\* operation has failed with that very error and has issued no call after
\* the one that failed.
C2_ErrorPropagated == Propagated(rd, recvLog) /\ Propagated(wr, sendLog)

C2_Witness ==
    /\ rd.pc = "failed" /\ rd.err = "ENETDOWN"
    /\ wr.pc = "failed" /\ wr.err = "EINTR"

Partial(op, log) ==
    log.final = "ok" =>
        /\ op.pc = "done"
        /\ op.ret = log.n
        /\ log.n <= log.len
        /\ log.len = Len(op.buf)
        /\ log.after = 0

\* C3: when the OS reports a successful transfer of n bytes, 0 <= n <= L,
\* the operation returns success with exactly n and issues no second call
\* for the remaining L - n bytes.
C3_PartialTransfer == Partial(rd, recvLog) /\ Partial(wr, sendLog)

C3_Witness ==
    /\ wr.pc = "done" /\ Len(wr.buf) = 2 /\ wr.ret = 0
    /\ rd.pc = "done" /\ Len(rd.buf) = 2 /\ rd.ret = 1

\* C4: a name of IFNAMSIZ bytes or more makes construction fail with the
\* configuration error before any OS call; a shorter name passes the check
\* and socket creation is attempted.
C4_NameLength ==
    newRes.result # "none" =>
        IF Len(newRes.intf) >= IFNAMSIZ
        THEN /\ newRes.result = "err"
             /\ newRes.err = "other"
             /\ newRes.calls = <<>>
        ELSE /\ newRes.calls # <<>>
             /\ Head(newRes.calls) = "socket"
             /\ newRes.err # "other"

C4_Witness ==
    /\ Len(newRes.intf) = IFNAMSIZ
    /\ newRes.result = "err"

\* C5: after a construction that failed once the socket was created, the
\* created descriptor is closed.
C5_NoLeakOnFailure ==
    newRes.result = "err" /\ newRes.fd # 0 => newRes.fd \notin open

\* C6: a destroyed channel's descriptor is closed and its registration
\* removed.
C6_ClosedOnDrop ==
    \A f \in dropped : f \notin open /\ f \notin registered

CancelFrame(op, opNext, log, logNext) ==
    /\ op.pc = "suspended" /\ opNext.pc = "cancelled" =>
          /\ logNext = log
          /\ UNCHANGED <<osVars, reactorVars, netVars>>
    /\ op.pc = "cancelled" /\ opNext.pc = "cancelled" => logNext = log
    /\ opNext.prev = "cancelled" /\ opNext.pc = "done" =>
          logNext.final = "ok" /\ opNext.ret = logNext.n

\* C7: cancelling a suspended operation changes nothing of the channel
\* (descriptor, registration, readiness, network) nor of the other
\* operation, the cancelled operation issues no call afterwards, and the
\* operation that follows it returns what the OS answers to its own call.
C7_CancelSafe ==
    [][/\ CancelFrame(rd, rd', recvLog, recvLog')
       /\ CancelFrame(wr, wr', sendLog, sendLog')
       /\ rd.pc = "suspended" /\ rd'.pc = "cancelled" => UNCHANGED writeVars
       /\ wr.pc = "suspended" /\ wr'.pc = "cancelled" => UNCHANGED readVars
      ]_vars

C7_Witness ==
    /\ rd.prev = "cancelled" /\ rd.pc = "done" /\ rd.ret > 0
    /\ wr.prev = "cancelled" /\ wr.pc = "done" /\ wr.ret > 0

CallsOnly(op, opNext, log, logNext, fn, ready) ==
    /\ logNext.fn \in {"none", fn}
    /\ op.pc = "awaiting" /\ logNext # log => op.fd \in ready
    /\ op.pc = "suspended" /\ opNext.pc = "awaiting" =>
          shutdown \/ op.fd \in ready

\* C8: with a read and a write in progress on one channel, the read calls
\* recv, only when read readiness is set, and is woken by read readiness;
\* the write calls send, only when write readiness is set, and is woken
\* by write readiness; a step of one leaves the other operation, its calls
\* and its readiness unchanged.
C8_Independent ==
    [][/\ CallsOnly(rd, rd', recvLog, recvLog', "recv", readReady)
       /\ CallsOnly(wr, wr', sendLog, sendLog', "send", writeReady)
       /\ readVars' # readVars => UNCHANGED <<writeVars, reactorVars>>
       /\ writeVars' # writeVars => UNCHANGED <<readVars, reactorVars>>
      ]_vars

C8_Witness ==
    /\ rd.pc = "suspended" /\ rd.fd \notin readReady
    /\ wr.pc = "done" /\ sendLog.wb > 0 /\ wr.fd = rd.fd

\* C9: on the loopback channel of the test, once the write of a packet of
\* length L has completed and the read into a buffer of capacity >= L has
\* completed, the read returned L and the first L bytes of the buffer are
\* the packet.
C9_RoundTrip ==
    /\ test \in {"reading", "passed", "panic"}
    /\ wr.pc = "done"
    /\ rd.pc = "done"
    /\ Len(rd.buf) >= Len(wr.buf)
    => /\ rd.ret = Len(wr.buf)
       /\ Prefix(rd.buf, Len(wr.buf)) = wr.buf

C9_Witness ==
    /\ test = "passed"
    /\ Len(wr.buf) = 2 /\ wr.buf[1] # wr.buf[2]
    /\ recvLog.wb > 0

\* C10: the descriptor of every live channel has been non-blocking since
\* libc::socket created it, construction issues no call besides socket,
\* ioctl, bind and the wrap, and no recv/send of read/write blocks.
C10_NonBlocking ==
    /\ \A f \in chan : f \in nonblock
    /\ newRes.result = "ok" =>
          /\ "SOCK_NONBLOCK" \in newRes.sockArgs.type
          /\ newRes.calls = <<"socket", "ioctl", "bind", "AsyncFd::new">>
    /\ rd.pc # "blocked"
    /\ wr.pc # "blocked"

C10_Witness ==
    /\ rd.fd \in chan /\ recvLog.wb > 0
    /\ wr.fd \in chan /\ sendLog.wb > 0

\* C11: construction issues socket, ioctl, bind and the wrap in this order;
\* when socket, ioctl or bind fails, construction ends with that call as
\* its last, returns the error the OS gave for it, and no channel exists
\* for the descriptor.
C11_FailFast ==
    LET n == Len(newRes.calls)
        order == <<"socket", "ioctl", "bind", "AsyncFd::new">>
    IN /\ n <= 4
       /\ Len(newRes.answers) = n
       /\ \A i \in 1..n : newRes.calls[i] = order[i]
       /\ \A i \in 1..n : i < n => newRes.answers[i] = "ok"
       /\ n \in 1..3 /\ newRes.result # "none" =>
             /\ newRes.answers[n] # "ok"
             /\ newRes.result = "err"
             /\ newRes.err = newRes.answers[n]
             /\ newRes.fd \notin chan
             /\ newRes.fd \notin registered
       /\ newRes.result = "ok" =>
             /\ n = 4
             /\ newRes.answers[4] = "ok"
             /\ newRes.fd \in chan \cup dropped

C11_Witness ==
    /\ newRes.result = "err"
    /\ newRes.calls = <<"socket", "ioctl", "bind">>
    /\ newRes.err = "ENETDOWN"
    /\ chan # {}

\* C12: a would-block answer consumes the readiness the call followed: in
\* the state after it the readiness of that direction is no longer set, so
\* the operation's next call has to wait for a new notification.
C12_Resuspends ==
    [][/\ recvLog'.wb > recvLog.wb => rd'.fd \notin readReady'
       /\ sendLog'.wb > sendLog.wb => wr'.fd \notin writeReady'
      ]_vars

\* C13: every recv/send call is made by an operation whose readiness wait
\* has just completed (it is at the await, the readiness of its direction
\* is set and the reactor runs), the step of the call ends with the answer
\* classified (awaiting again, done or failed, never suspended), and an
\* operation suspends only at its readiness wait, without a call.
C13_CallAfterWait ==
    [][/\ rd.pc \notin Returned /\ recvLog' # recvLog =>
            /\ rd.pc = "awaiting" /\ ~shutdown
            /\ rd.fd \in readReady
            /\ rd'.pc \in {"awaiting", "done", "failed"}
       /\ wr.pc \notin Returned /\ sendLog' # sendLog =>
            /\ wr.pc = "awaiting" /\ ~shutdown
            /\ wr.fd \in writeReady
            /\ wr'.pc \in {"awaiting", "done", "failed"}
       /\ rd'.pc = "suspended" /\ rd.pc # "suspended" =>
            /\ rd.pc = "awaiting" /\ recvLog' = recvLog
            /\ rd.fd \notin readReady
       /\ wr'.pc = "suspended" /\ wr.pc # "suspended" =>
            /\ wr.pc = "awaiting" /\ sendLog' = sendLog
            /\ wr.fd \notin writeReady
      ]_vars

C13_Witness ==
    /\ rd.pc = "failed" /\ recvLog.wb = 1 /\ recvLog.final = "EINTR"
    /\ wr.pc = "done" /\ sendLog.wb = 1

\* C15: the address handed to bind has the packet address family, as its
\* protocol field the two bytes of the selector's 16 bits, high byte first
\* on either byte order of the target, and the interface index the ioctl
\* wrote into the ifreq.
C15_BindAddress ==
    LET p == newRes.protocol
    IN IF Len(newRes.calls) >= 3
       THEN /\ newRes.addr.sll_family = AF_PACKET
            /\ newRes.addr.sll_protocol = <<(p \div 256) % 256, p % 256>>
            /\ newRes.addr.sll_ifindex = newRes.ifindex
            /\ newRes.ifindex \in 1..MaxIfIndex
       ELSE newRes.addr = NoAddr

C15_Witness ==
    /\ newRes.result = "ok"
    /\ newRes.le
    /\ newRes.protocol = ETH_P_ALL
    /\ newRes.addr.sll_protocol = <<0, ETH_P_ALL>>
    /\ newRes.addr.sll_ifindex = MaxIfIndex

\* The Ethernet protocol the kernel takes from the protocol argument of
\* socket(AF_PACKET, ...): it reads the low 16 bits of the int as a value in
\* network byte order (packet(7)).
SocketDesignates(arg, le) ==
    IF le THEN Swap16(arg % 65536) ELSE arg % 65536

\* The Ethernet protocol the kernel takes from sll_protocol: the two bytes
\* of the field, high byte first.
BindDesignates(bytes) == bytes[1] * 256 + bytes[2]

\* C16: the protocol argument of socket designates the same Ethernet
\* protocol as the sll_protocol field of the address handed to bind.
C16_SameProtocol ==
    Len(newRes.calls) >= 3 =>
        SocketDesignates(newRes.sockArgs.protocol, newRes.le)
            = BindDesignates(newRes.addr.sll_protocol)

\* C17: the ifr_name handed to ioctl has IFNAMSIZ bytes: the n < IFNAMSIZ
\* bytes of the name at its front, each the same 8 bits as the name's byte,
\* and zero from there to the end, the last byte included; a name that does
\* not pass the length check reaches no ioctl.
C17_NameBuffer ==
    LET n == Len(newRes.intf)
        b == newRes.ifr_name
    IN IF Len(newRes.calls) >= 2
       THEN /\ n < IFNAMSIZ
            /\ Len(b) = IFNAMSIZ
            /\ \A i \in 1..IFNAMSIZ :
                  /\ b[i] \in -128..127
                  /\ i <= n => (b[i] - newRes.intf[i]) % 256 = 0
                  /\ i > n => b[i] = 0
            /\ b[IFNAMSIZ] = 0
       ELSE b = <<>>

C17_Witness ==
    /\ Len(newRes.calls) >= 2
    /\ Len(newRes.intf) = IFNAMSIZ - 1
    /\ newRes.ifr_name[IFNAMSIZ - 1] = 108
    /\ newRes.ifr_name[2] = -56

\* C18: no call of RawSock::new ends in a panic: when the wrap by
\* AsyncFd::new fails the call returns an error.
C18_NoPanic ==
    /\ newRes.result # "panic"
    /\ newRes.result \in {"none", "ok", "err"}

\* What an operation returned is the answer to its own calls: the count of
\* its first answer other than would-block, or that answer's errno, or the
\* error of its own readiness wait on a reactor that has shut down.
OwnOutcome(op, log) ==
    /\ op.pc = "done" => log.final = "ok" /\ op.ret = log.n
    /\ op.pc = "failed" =>
          \/ log.final \in IoErrnos /\ op.err = log.final
          \/ log.final = "none" /\ op.err = "gone"

\* C19: the step in which a read or write fails changes nothing of the
\* channel (descriptors, registrations, readiness); a failed operation
\* issues no further call; the next operation on the channel starts at its
\* readiness wait with no call made and no error, and what it returns is
\* the answer to its own calls.
C19_FailureLeavesChannel ==
    [][/\ rd'.pc = "failed" /\ rd.pc # "failed" =>
            UNCHANGED <<osVars, reactorVars, netVars>>
       /\ wr'.pc = "failed" /\ wr.pc # "failed" =>
            UNCHANGED <<osVars, reactorVars, netVars>>
       /\ rd.pc = "failed" /\ <<rd, recvLog>>' # <<rd, recvLog>> =>
            /\ rd'.pc = "awaiting" /\ rd'.err = "none" /\ rd'.prev = "failed"
            /\ rd'.fd \in chan /\ rd'.fd \in registered /\ rd'.fd \in open
            /\ recvLog' = NoLog
       /\ wr.pc = "failed" /\ <<wr, sendLog>>' # <<wr, sendLog>> =>
            /\ wr'.pc = "awaiting" /\ wr'.err = "none" /\ wr'.prev = "failed"
            /\ wr'.fd \in chan /\ wr'.fd \in registered /\ wr'.fd \in open
            /\ sendLog' = NoLog
       /\ OwnOutcome(rd, recvLog)' /\ recvLog'.after = 0
       /\ OwnOutcome(wr, sendLog)' /\ sendLog'.after = 0
      ]_vars

C19_Witness ==
    /\ rd.prev = "failed" /\ rd.pc = "done" /\ rd.ret > 0
    /\ wr.prev = "failed" /\ wr.pc = "done" /\ wr.ret > 0
    /\ rd.fd \in chan /\ wr.fd \in chan

\* C14: a read or write that has started and is not cancelled ends done or
\* failed, whatever number of would-block answers it gets on the way, when
\* the reactor delivers readiness, woken tasks run and the OS at some call
\* answers something other than would-block.
C14_Terminates ==
    /\ rd.pc \in {"awaiting", "suspended"}
          ~> rd.pc \in {"done", "failed", "cancelled"}
    /\ wr.pc \in {"awaiting", "suspended"}
          ~> wr.pc \in {"done", "failed", "cancelled"}

C14_Witness ==
    /\ rd.pc = "done" /\ recvLog.wb = MaxWB
    /\ wr.pc = "failed" /\ sendLog.wb = MaxWB /\ wr.err \in IoErrnos

====
